---- MODULE Spec2Model ----
(***************************************************************************)
(* The PoseDetection component (client/src/components/camera/              *)
(* PoseDetection.tsx): its React state and refs, the detector handler      *)
(* registered by the initialization effect, the posture scorer             *)
(* (analyzePose), the repetition counter (countReps) with its debounce     *)
(* timer, and the session lifecycle driven by the isActive prop.           *)
(*                                                                         *)
(* Units.  Landmark y-coordinates are integers in thousandths (0.001).     *)
(* A centre (mean of a left and a right coordinate) is kept in units of    *)
(* 0.0005, i.e. as left + right, so that the division by 2 is exact.       *)
(* Times are milliseconds.  A score before rounding is kept in tenths.     *)
(*                                                                         *)
(* Closures.  A function of the component body reads the state values      *)
(* (repCount, lastPostureCheck) of the render that created it.  The        *)
(* handler given to pose.onResults is the one of the render in which the   *)
(* initialization effect ran; handlers[i] holds the values it captured.    *)
(* Refs (previousHipY, movementDirection, repInProgress, poseRef) are      *)
(* shared by all renders.                                                  *)
(*                                                                         *)
(* Environment.  The video and canvas elements are mounted (a delivery may *)
(* still find no canvas).  The detector is an external object: a frame     *)
(* sent to a Pose object yields one result, delivered to the handler       *)
(* registered with that object, at any later time; clean-up does not close *)
(* the Pose object, so a result of a send in flight at clean-up is still   *)
(* delivered.  A state update and the render and effects that follow it    *)
(* are one step.                                                           *)
(***************************************************************************)
EXTENDS Integers, Sequences, FiniteSets

\* ------------------------------------------------------------------ bounds
T0 == 10000
Step == 500
MaxTime == 12000
MaxSessions == 2
MaxRequests == 2

\* ------------------------------------------------------- program constants
Threshold == 40
PostureWindow == 1000
DebounceDelay == 1000
MinLandmarks == 33
StartDelay == 100

NoTime == 0 - 1

\* A requestAnimationFrame callback is one of the two detectPose closures; the
\* model keeps which (fn) and the isActive, isInitialized, repCount and
\* lastPostureCheck of the render that created it.
Closure(fn) ==
    [fn |-> fn, active |-> FALSE, initialized |-> FALSE, repCount |-> 0,
     lastPostureCheck |-> 0]
NoFrame == Closure("none")

NoseYs == {900}
ShoulderPairs == {<<300, 305>>}
HipPairs == {<<0, 0>>, <<500, 500>>, <<510, 530>>, <<540, 540>>}

\* PoseLandmark.visibility, in thousandths, of a landmark the detector is
\* confident of and of one it is not.
Visible == 900
Unsure == 100
\* The confidence the detector is configured with (minDetectionConfidence,
\* minTrackingConfidence: 0.5), in thousandths.
MinConfidence == 500

\* A detector result: poseLandmarks may be absent; when present it has len
\* entries, of which the model keeps the five y-coordinates the code reads and
\* the visibility of the nose and shoulder landmarks (noseVis) and of the hip
\* landmarks (hipVis).
FullResults ==
    [has : {TRUE}, len : {MinLandmarks}, nose : NoseYs,
     shoulders : ShoulderPairs, hips : HipPairs,
     noseVis : {Visible}, hipVis : {Visible}]

ShortResults ==
    [has : {TRUE}, len : {MinLandmarks - 1}, nose : {900},
     shoulders : ShoulderPairs, hips : {<<540, 540>>},
     noseVis : {Visible}, hipVis : {Visible}]

AbsentResults ==
    [has : {FALSE}, len : {0}, nose : {900},
     shoulders : ShoulderPairs, hips : {<<540, 540>>},
     noseVis : {Visible}, hipVis : {Visible}]

PoseResults == FullResults \cup ShortResults \cup AbsentResults

\* What a delivery finds: the result, and whether canvasRef.current and its 2d
\* context are there.
Deliveries ==
    [f : PoseResults, canvas : {TRUE}] \cup [f : AbsentResults, canvas : {FALSE}]

VARIABLES
    now,                \* Date.now()
    isActive,           \* prop
    isMediaPipeLoaded,  \* useState
    isInitialized,      \* useState
    repCount,           \* useState
    lastPostureCheck,   \* useState
    poseRef,            \* useRef: 0 is null, i is the i-th Pose object created
    handlers,           \* handlers[i]: state captured by the i-th registered onPoseResults
    inflight,           \* Pose objects with a send whose result is not yet delivered
    previousHipY,       \* useRef
    movementDirection,  \* useRef
    repInProgress,      \* useRef
    timers,             \* pending setTimeout callbacks of countReps
    step,               \* the operation that produced this state
    out,                \* the callbacks it invoked, in order
    sessReps,           \* repetitions counted since the live session started
    lastRepEmit,        \* last value given to onRepCount since it started (0: none)
    lastRepAt,          \* time of the last repetition counted from landmarks
    lastPostureAt,      \* time of the last onPostureUpdate since it started
    sessSeen,           \* a frame of the live session has reached countReps
    startTimers,        \* pending setTimeout callbacks of initializePose
    animation,          \* pending requestAnimationFrame callbacks (their closures)
    animationRef,       \* useRef: the callback last requested (NoFrame: undefined)
    requests,           \* server: the requests whose handler is at an await
    responses,          \* server: the responses sent
    exerciseSessions,   \* table exercise_sessions
    userProgress,       \* table user_progress, by userId
    records             \* tables mood_entries, chat_conversations, appointments

vars ==
    <<now, isActive, isMediaPipeLoaded, isInitialized, repCount, lastPostureCheck,
      poseRef, handlers, inflight, previousHipY, movementDirection, repInProgress,
      timers, step, out, sessReps, lastRepEmit, lastRepAt, lastPostureAt, sessSeen,
      startTimers, animation, animationRef,
      requests, responses, exerciseSessions, userProgress, records>>

reactState == <<isActive, isMediaPipeLoaded, isInitialized, repCount, lastPostureCheck>>
refs == <<previousHipY, movementDirection, repInProgress>>
history == <<sessReps, lastRepEmit, lastRepAt, lastPostureAt, sessSeen>>
loops == <<startTimers, animation, animationRef>>
server == <<requests, responses, exerciseSessions, userProgress, records>>

\* ------------------------------------------------------------- the server
Users == {"u1", "u2"}
ExerciseRoute == "POST /api/exercise-sessions"
RecordRoutes ==
    {"POST /api/mood-entries", "POST /api/chat/conversations", "POST /api/appointments"}
UpdateRoutes ==
    {"PUT /api/chat/conversations/:id", "PUT /api/appointments/:id/status"}

\* The table a route writes.
TableOf(route) ==
    CASE route = "POST /api/mood-entries" -> "mood_entries"
      [] route \in {"POST /api/chat/conversations", "PUT /api/chat/conversations/:id"}
            -> "chat_conversations"
      [] route \in {"POST /api/appointments", "PUT /api/appointments/:id/status"}
            -> "appointments"
      [] OTHER -> "exercise_sessions"

\* No user_progress row for a user.
NoProgress ==
    [exists |-> FALSE, currentWeekSessions |-> 0, totalSessions |-> 0,
     weeklyExerciseGoal |-> 0]

Abs(x) == IF x < 0 THEN 0 - x ELSE x
Min(a, b) == IF a < b THEN a ELSE b
Max(a, b) == IF a > b THEN a ELSE b

RoundDown(tenths) == tenths \div 10
\* Math.round of a value given in tenths: floor(x + 0.5).
Round(tenths) == (tenths + 5) \div 10

\* (leftHip.y + rightHip.y) / 2, in units of 0.0005.
HipCenterY(f) == f.hips[1] + f.hips[2]

\* (leftShoulder.y + rightShoulder.y) / 2, in units of 0.0005.
ShoulderCenterY(f) == f.shoulders[1] + f.shoulders[2]

\* Math.abs(nose.y - shoulderCenterY - hipCenterY), in units of 0.0005.
SpineAlignment(f) == Abs(2 * f.nose - ShoulderCenterY(f) - HipCenterY(f))

ClampNoFloor(tenths) == Min(1000, tenths)
\* Math.max(0, Math.min(100, x)), x in tenths.
Clamp(tenths) == Max(0, Min(1000, tenths))

\* postureScore, in tenths: 100 - spineAlignment * 200.
PostureScore(f) == Clamp(1000 - SpineAlignment(f))

AnalyzedOffByOne(f) == f.has /\ f.len >= MinLandmarks - 1
\* landmarks && landmarks.length >= 33 (the guard of analyzePose, reached only
\* when results.poseLandmarks is present).
Analyzed(f) == f.has /\ f.len >= MinLandmarks

ScoreDueUnlessDebounced(h) ==
    now - h.lastPostureCheck > PostureWindow /\ ~repInProgress
\* now - lastPostureCheck > 1000, with the lastPostureCheck the handler captured.
ScoreDue(h) == now - h.lastPostureCheck > PostureWindow

ExceedsOrEquals(movement) == Abs(movement) >= Threshold
\* Math.abs(movement) > threshold
Exceeds(movement) == Abs(movement) > Threshold

NewDirection(movement) == IF movement > 0 THEN "down" ELSE "up"

CompletesWithoutDown(newDirection) ==
    newDirection = "up" /\ ~repInProgress
CompletesIgnoringDebounce(newDirection) ==
    movementDirection = "down" /\ newDirection = "up"
\* movementDirection.current === 'down' && newDirection === 'up' && !repInProgress.current
Completes(newDirection) ==
    movementDirection = "down" /\ newDirection = "up" /\ ~repInProgress

CountRepsKeepsPrevious(currentHipY) ==
    IF previousHipY = 0
    THEN [prev |-> currentHipY, dir |-> movementDirection,
          rip |-> repInProgress, counted |-> FALSE]
    ELSE LET movement == currentHipY - previousHipY
         IN IF Exceeds(movement)
            THEN LET counted == Completes(NewDirection(movement))
                 IN [prev |-> currentHipY, dir |-> NewDirection(movement),
                     rip |-> (repInProgress \/ counted), counted |-> counted]
            ELSE [prev |-> previousHipY, dir |-> movementDirection,
                  rip |-> repInProgress, counted |-> FALSE]
\* countReps(currentHipY) on the current refs: the refs it leaves and whether
\* it counted a repetition.
CountReps(currentHipY) ==
    IF previousHipY = 0
    THEN [prev |-> currentHipY, dir |-> movementDirection,
          rip |-> repInProgress, counted |-> FALSE]
    ELSE LET movement == currentHipY - previousHipY
         IN IF Exceeds(movement)
            THEN LET counted == Completes(NewDirection(movement))
                 IN [prev |-> currentHipY, dir |-> NewDirection(movement),
                     rip |-> (repInProgress \/ counted), counted |-> counted]
            ELSE [prev |-> currentHipY, dir |-> movementDirection,
                  rip |-> repInProgress, counted |-> FALSE]

Call(cb, val) == [cb |-> cb, val |-> val]
RepCalls(o) == {k \in DOMAIN o : o[k].cb = "onRepCount"}
PostureCalls(o) == {k \in DOMAIN o : o[k].cb = "onPostureUpdate"}

\* A record of the operation that produced a state.  For a delivered result:
\* the result (f), whether the frame reached countReps, its hip centre,
\* whether it is the first frame of the live session's Pose object to reach
\* countReps, and what the handler found: the refs, the repCount and
\* lastPostureCheck states (count, lpc), the time of the last counted
\* repetition, and the last onRepCount value and onPostureUpdate time of the
\* live session.
NoResult == CHOOSE f \in AbsentResults : TRUE

Op(op, pose) ==
    [op |-> op, pose |-> pose, f |-> NoResult, analyzed |-> FALSE, hip |-> 0,
     first |-> FALSE,
     prev |-> 0, dir |-> "none", rip |-> FALSE, count |-> 0, lpc |-> 0,
     repAt |-> NoTime, repEmit |-> 0, postureAt |-> NoTime]

ResultOp(pose, f, analyzed) ==
    [op |-> "result", pose |-> pose, f |-> f, analyzed |-> analyzed,
     hip |-> IF analyzed THEN HipCenterY(f) ELSE 0,
     first |-> (analyzed /\ pose = poseRef /\ ~sessSeen),
     prev |-> previousHipY, dir |-> movementDirection, rip |-> repInProgress,
     count |-> repCount, lpc |-> lastPostureCheck,
     repAt |-> lastRepAt, repEmit |-> lastRepEmit, postureAt |-> lastPostureAt]

\* -------------------------------------------------------------------- Init
Init ==
    /\ now = T0
    /\ isActive = FALSE
    /\ isMediaPipeLoaded = FALSE
    /\ isInitialized = FALSE
    /\ repCount = 0
    /\ lastPostureCheck = 0
    /\ poseRef = 0
    /\ handlers = <<>>
    /\ inflight = {}
    /\ previousHipY = 0
    /\ movementDirection = "none"
    /\ repInProgress = FALSE
    /\ timers = {}
    /\ step = Op("init", 0)
    /\ out = <<>>
    /\ sessReps = 0
    /\ lastRepEmit = 0
    /\ lastRepAt = NoTime
    /\ lastPostureAt = NoTime
    /\ sessSeen = FALSE
    /\ startTimers = {}
    /\ animation = {}
    /\ animationRef = NoFrame
    /\ requests = {}
    /\ responses = {}
    /\ exerciseSessions = {}
    /\ userProgress = [u \in Users |-> NoProgress]
    /\ records = {}

\* ----------------------------------------------------------------- effects
\* The initialization effect's body: a new Pose, pose.onResults(onPoseResults)
\* with this render's handler, poseRef.current = pose, setIsInitialized(true).
InitializePose ==
    /\ handlers' = Append(handlers, [repCount |-> repCount,
                                     lastPostureCheck |-> lastPostureCheck])
    /\ poseRef' = Len(handlers) + 1
    /\ isInitialized' = TRUE
    /\ sessReps' = 0
    /\ lastRepEmit' = 0
    /\ lastPostureAt' = NoTime
    /\ sessSeen' = FALSE
    /\ UNCHANGED lastRepAt

\* The clean-up effect's body: poseRef.current = null, setIsInitialized(false).
\* Nothing is done to the pending timers, the refs or the Pose object.
CleanUp ==
    /\ poseRef' = 0
    /\ isInitialized' = FALSE
    /\ UNCHANGED <<handlers, history>>

\* The effects that run after a render with the given isActive and
\* isMediaPipeLoaded.
RunEffects(active, loaded) ==
    IF loaded /\ active /\ ~isInitialized
    THEN InitializePose
    ELSE IF ~active /\ isInitialized
         THEN CleanUp
         ELSE UNCHANGED <<poseRef, handlers, isInitialized, history>>

\* ----------------------------------------------------------------- actions
\* The parent changes the isActive prop: a session starts or stops.
SetActive(b) ==
    /\ isActive # b
    /\ b => Len(handlers) < MaxSessions
    /\ isActive' = b
    /\ RunEffects(b, isMediaPipeLoaded)
    /\ step' = Op(IF b THEN "start" ELSE "stop", poseRef')
    /\ out' = <<>>
    /\ UNCHANGED <<now, isMediaPipeLoaded, repCount, lastPostureCheck, inflight,
                   refs, timers>>
    /\ UNCHANGED <<loops, server>>

\* checkMediaPipe finds the detector scripts.
MediaPipeLoaded ==
    /\ ~isMediaPipeLoaded
    /\ isMediaPipeLoaded' = TRUE
    /\ RunEffects(isActive, TRUE)
    /\ step' = Op("loaded", poseRef')
    /\ out' = <<>>
    /\ UNCHANGED <<now, isActive, repCount, lastPostureCheck, inflight, refs, timers>>
    /\ UNCHANGED <<loops, server>>

\* A video frame reaches the live Pose object (poseRef.current.send), one at a
\* time (send is awaited).  What drives send is left open: the only guard is
\* that poseRef holds a Pose object.
Send ==
    /\ poseRef # 0
    /\ poseRef \notin inflight
    /\ inflight' = inflight \cup {poseRef}
    /\ step' = Op("send", poseRef)
    /\ out' = <<>>
    /\ UNCHANGED <<now, reactState, poseRef, handlers, refs, timers, history>>
    /\ UNCHANGED <<loops, server>>

\* The i-th Pose object delivers a result to the handler registered with it:
\* onPoseResults, analyzePose and countReps.  canvas: canvasRef.current and its
\* 2d context are there.
Result(i, f, canvas) ==
    /\ i \in inflight
    /\ inflight' = inflight \ {i}
    /\ LET h == handlers[i]
           analyzed == canvas /\ Analyzed(f)
           emit == analyzed /\ ScoreDue(h)
           c == CountReps(HipCenterY(f))
           counted == analyzed /\ c.counted
           newRepCount == h.repCount + 1
           live == poseRef # 0
       IN /\ out' = (IF emit THEN <<Call("onPostureUpdate", Round(PostureScore(f)))>>
                             ELSE <<>>)
                    \o (IF counted THEN <<Call("onRepCount", newRepCount)>> ELSE <<>>)
          /\ lastPostureCheck' = IF emit THEN now ELSE lastPostureCheck
          /\ repCount' = IF counted THEN newRepCount ELSE repCount
          /\ previousHipY' = IF analyzed THEN c.prev ELSE previousHipY
          /\ movementDirection' = IF analyzed THEN c.dir ELSE movementDirection
          /\ repInProgress' = IF analyzed THEN c.rip ELSE repInProgress
          /\ timers' = IF counted
                       THEN timers \cup {[due |-> now + DebounceDelay, session |-> poseRef]}
                       ELSE timers
          /\ step' = ResultOp(i, f, analyzed)
          /\ sessReps' = IF counted /\ live THEN sessReps + 1 ELSE sessReps
          /\ lastRepEmit' = IF counted /\ live THEN newRepCount ELSE lastRepEmit
          /\ lastRepAt' = IF counted THEN now ELSE lastRepAt
          /\ lastPostureAt' = IF emit /\ live THEN now ELSE lastPostureAt
          /\ sessSeen' = (sessSeen \/ (analyzed /\ i = poseRef))
    /\ UNCHANGED <<now, isActive, isMediaPipeLoaded, isInitialized, poseRef, handlers>>
    /\ UNCHANGED <<loops, server>>

TimerFiresEarly(t) ==
    /\ t \in timers
    /\ repInProgress' = FALSE
    /\ timers' = timers \ {t}
    /\ step' = Op("timer", t.session)
    /\ out' = <<>>
    /\ UNCHANGED <<now, reactState, poseRef, handlers, inflight, previousHipY,
                   movementDirection, history>>
    /\ UNCHANGED <<loops, server>>
\* The callback of countReps's setTimeout runs.
TimerFires(t) ==
    /\ t \in timers
    /\ now >= t.due
    /\ repInProgress' = FALSE
    /\ timers' = timers \ {t}
    /\ step' = Op("timer", t.session)
    /\ out' = <<>>
    /\ UNCHANGED <<now, reactState, poseRef, handlers, inflight, previousHipY,
                   movementDirection, history>>
    /\ UNCHANGED <<loops, server>>

\* Time passes; a timer that is due runs before more time passes.
Tick ==
    /\ now + Step <= MaxTime
    /\ \A t \in timers : t.due > now
    /\ now' = now + Step
    /\ step' = Op("tick", 0)
    /\ out' = <<>>
    /\ UNCHANGED <<reactState, poseRef, handlers, inflight, refs, timers, history>>
    /\ UNCHANGED <<loops, server>>

Next ==
    \/ \E b \in BOOLEAN : SetActive(b)
    \/ MediaPipeLoaded
    \/ Send
    \/ \E i \in 1..Len(handlers), d \in Deliveries : Result(i, d.f, d.canvas)
    \/ \E t \in timers : TimerFires(t)
    \/ Tick

Spec == Init /\ [][Next]_vars

\* The frames of the fair specification: deliveries without landmarks or
\* without a canvas, and full results at two hip heights more than the
\* threshold apart, which is what counting a repetition takes.
FairDeliveries ==
    {d \in Deliveries :
        \/ ~d.f.has
        \/ d.f.len = MinLandmarks /\ d.f.hips \in {<<500, 500>>, <<540, 540>>}}

FairNext ==
    \/ \E b \in BOOLEAN : SetActive(b)
    \/ MediaPipeLoaded
    \/ Send
    \/ \E i \in 1..Len(handlers), d \in FairDeliveries : Result(i, d.f, d.canvas)
    \/ \E t \in timers : TimerFires(t)
    \/ Tick

\* The event loop runs a timer callback that is due, and time passes.
FairSpec ==
    /\ Init /\ [][FairNext]_vars
    /\ WF_vars(Tick)
    /\ WF_vars(\E t \in timers : TimerFires(t))

\* ------------------------------------------- one session, a wider frame set
\* Results with all 33 landmarks, over more nose, shoulder and hip coordinates
\* and with the detector sure or unsure of the nose and shoulder landmarks and
\* of the hip landmarks.
SessionNoseYs == {100, 900, 950}
SessionShoulderPairs == {<<300, 300>>, <<300, 303>>}
SessionHipPairs == {<<700, 700>>, <<510, 530>>, <<540, 540>>}
SessionResults ==
    [has : {TRUE}, len : {MinLandmarks}, nose : SessionNoseYs,
     shoulders : SessionShoulderPairs, hips : SessionHipPairs,
     noseVis : {Visible, Unsure}, hipVis : {Visible, Unsure}]

\* The component is activated once and may be deactivated; the detector
\* delivers results from SessionResults and the canvas is there.
OneSessionNext ==
    \/ \E b \in BOOLEAN : (b => Len(handlers) = 0) /\ SetActive(b)
    \/ MediaPipeLoaded
    \/ Send
    \/ \E i \in 1..Len(handlers), f \in SessionResults : Result(i, f, TRUE)
    \/ \E t \in timers : TimerFires(t)
    \/ Tick

OneSessionSpec == Init /\ [][OneSessionNext]_vars

\* ------------------------------------ the detection loop and the simulation
\* The scores the simulation can emit: Math.round(75 + 15 sin(..) + (random -
\* 0.5) * 10) lies in 55..95.
SimScores == {55, 75, 95}

SimDueAlways(c) == TRUE
\* now - lastPostureCheck > 1000 in the simulation's detectPose.
SimDue(c) == now - c.lastPostureCheck > PostureWindow

\* startSimulation() in a render with the given isActive, repCount and
\* lastPostureCheck, and with it the chain it sets off: detectPose runs at
\* once; when a score is due it calls onPostureUpdate(score), with rep (Math.
\* random() < 0.3) it sets the rep count and calls onRepCount, it sets
\* lastPostureCheck, and requests the next animation frame.  A state that
\* changed re-renders: the fallback effect's clean-up cancels the frame in
\* animationRef and, the scripts not being loaded, its body starts the
\* simulation again from the new render, where no score is due.
\* pending: the animation frames left pending before the call.
StartSimulation(c, pending, loaded, score, rep) ==
    IF ~c.active
    THEN [out |-> <<>>, repCount |-> repCount, lastPostureCheck |-> lastPostureCheck,
          animation |-> pending, animationRef |-> animationRef, emitted |-> FALSE]
    ELSE IF SimDue(c)
    THEN LET newRepCount == c.repCount + 1
             count == IF rep THEN newRepCount ELSE repCount
             changed == count # repCount \/ now # lastPostureCheck
             next == [c EXCEPT !.repCount = count, !.lastPostureCheck = now]
         IN [out |-> <<Call("onPostureUpdate", Max(0, Min(100, score)))>>
                     \o (IF rep THEN <<Call("onRepCount", newRepCount)>> ELSE <<>>),
             repCount |-> count, lastPostureCheck |-> now,
             animation |-> IF ~changed THEN pending \cup {c}
                           ELSE IF loaded THEN pending
                           ELSE pending \cup {next},
             animationRef |-> IF changed /\ ~loaded THEN next ELSE c,
             emitted |-> TRUE]
    ELSE [out |-> <<>>, repCount |-> repCount, lastPostureCheck |-> lastPostureCheck,
          animation |-> pending \cup {c}, animationRef |-> c, emitted |-> FALSE]

\* What a step of the loops leaves in the variables of the simulation.
Simulated(r, op, pose) ==
    /\ out' = r.out
    /\ repCount' = r.repCount
    /\ lastPostureCheck' = r.lastPostureCheck
    /\ animation' = r.animation
    /\ animationRef' = r.animationRef
    /\ lastPostureAt' = (IF r.emitted THEN now ELSE lastPostureAt)
    /\ lastRepEmit' = (IF RepCalls(r.out) # {} THEN r.out[Len(r.out)].val ELSE lastRepEmit)
    /\ step' = [Op(op, pose) EXCEPT !.count = repCount, !.lpc = lastPostureCheck,
                                        !.repEmit = lastRepEmit,
                                        !.postureAt = lastPostureAt]

\* The effects after a render with the given isActive and isMediaPipeLoaded,
\* one of which changed.  Clean-ups first: the fallback effect's cancels the
\* frame in animationRef.  Then the bodies: the initialization effect (throws:
\* new window.Pose fails, and the catch starts the simulation; otherwise the
\* Pose object is registered and startPoseDetectionLoop is set to run after
\* 100ms, from this render), the clean-up effect, the fallback effect (the
\* simulation starts when the scripts are not loaded).
LoopEffects(active, loaded, throws, score, rep, op) ==
    LET pending == animation \ {animationRef}
        c == [fn |-> "simulate", active |-> active, initialized |-> isInitialized,
              repCount |-> repCount, lastPostureCheck |-> lastPostureCheck]
        init == loaded /\ active /\ ~isInitialized
        idle == [out |-> <<>>, repCount |-> repCount,
                 lastPostureCheck |-> lastPostureCheck, animation |-> pending,
                 animationRef |-> animationRef, emitted |-> FALSE]
    IN IF init /\ ~throws
       THEN /\ handlers' = Append(handlers, [repCount |-> repCount,
                                             lastPostureCheck |-> lastPostureCheck])
            /\ poseRef' = Len(handlers) + 1
            /\ isInitialized' = TRUE
            /\ startTimers' = startTimers \cup
                   {[due |-> now + StartDelay, active |-> active,
                     initialized |-> isInitialized]}
            /\ Simulated(idle, op, Len(handlers) + 1)
       ELSE IF (init /\ throws) \/ (~loaded /\ active)
       THEN /\ Simulated(StartSimulation(c, pending, loaded, score, rep), op, poseRef)
            /\ UNCHANGED <<handlers, poseRef, isInitialized, startTimers>>
       ELSE IF ~active /\ isInitialized
       THEN /\ poseRef' = 0
            /\ isInitialized' = FALSE
            /\ Simulated(idle, op, 0)
            /\ UNCHANGED <<handlers, startTimers>>
       ELSE /\ Simulated(idle, op, poseRef)
            /\ UNCHANGED <<handlers, poseRef, isInitialized, startTimers>>

unlooped ==
    <<inflight, refs, timers, sessReps, lastRepAt, sessSeen>>

\* The parent changes the isActive prop.
LoopSetActive(b, throws, score, rep) ==
    /\ isActive # b
    /\ b => Len(handlers) < MaxSessions
    /\ isActive' = b
    /\ LoopEffects(b, isMediaPipeLoaded, throws, score, rep, IF b THEN "start" ELSE "stop")
    /\ UNCHANGED <<now, isMediaPipeLoaded, unlooped, server>>

\* checkMediaPipe finds the detector scripts.
LoopMediaPipeLoaded(throws, score, rep) ==
    /\ ~isMediaPipeLoaded
    /\ isMediaPipeLoaded' = TRUE
    /\ LoopEffects(isActive, TRUE, throws, score, rep, "loaded")
    /\ UNCHANGED <<now, isActive, unlooped, server>>

\* The timer of initializePose runs startPoseDetectionLoop, which calls its
\* detectPose: with poseRef set and the isActive and isInitialized of its
\* render true it sends the video frame and requests the next animation frame;
\* otherwise it returns.
StartPoseDetectionLoop(t) ==
    /\ t \in startTimers
    /\ now >= t.due
    /\ startTimers' = startTimers \ {t}
    /\ LET c == [fn |-> "detect", active |-> t.active, initialized |-> t.initialized,
                 repCount |-> 0, lastPostureCheck |-> 0]
       IN IF poseRef # 0 /\ t.active /\ t.initialized
          THEN /\ inflight' = inflight \cup {poseRef}
               /\ animation' = animation \cup {c}
               /\ animationRef' = c
          ELSE UNCHANGED <<inflight, animation, animationRef>>
    /\ step' = Op("loop", poseRef)
    /\ out' = <<>>
    /\ UNCHANGED <<now, reactState, poseRef, handlers, refs, timers, history, server>>

\* An animation frame runs a pending detectPose of the simulation.
AnimationFrame(c, score, rep) ==
    /\ c \in animation
    /\ c.fn = "simulate"
    /\ Simulated(StartSimulation(c, animation \ {c}, isMediaPipeLoaded, score, rep),
                 "frame", poseRef)
    /\ UNCHANGED <<now, isActive, isMediaPipeLoaded, isInitialized, poseRef, handlers,
                   startTimers, unlooped, server>>

\* Time passes; a timer that is due runs before more time passes.
LoopTick ==
    /\ now + Step <= MaxTime
    /\ \A t \in startTimers : t.due > now
    /\ now' = now + Step
    /\ step' = Op("tick", 0)
    /\ out' = <<>>
    /\ UNCHANGED <<reactState, poseRef, handlers, inflight, refs, timers, history, loops,
                   server>>

LoopNext ==
    \/ \E b, throws, rep \in BOOLEAN, score \in SimScores :
           LoopSetActive(b, throws, score, rep)
    \/ \E throws, rep \in BOOLEAN, score \in SimScores :
           LoopMediaPipeLoaded(throws, score, rep)
    \/ \E t \in startTimers : StartPoseDetectionLoop(t)
    \/ \E c \in animation, rep \in BOOLEAN, score \in SimScores :
           AnimationFrame(c, score, rep)
    \/ LoopTick

LoopSpec == Init /\ [][LoopNext]_vars

\* ------------------------------------------------- the server's handlers
\* A request as it arrives: the route, the user the session authenticates (or
\* the default user), the userId its body carries, whether the body passes the
\* route's schema, and for an update the id in the path.
CreateRequests ==
    [route : {ExerciseRoute} \cup RecordRoutes, user : Users, bodyUserId : Users,
     valid : BOOLEAN, target : {0}]
UpdateRequests ==
    [route : UpdateRoutes, user : Users, bodyUserId : {"u1"}, valid : {TRUE},
     target : 1..MaxRequests]

client ==
    <<now, reactState, poseRef, handlers, inflight, refs, timers, step, out, history,
      loops>>

Received == Cardinality(requests) + Cardinality(responses)

\* schema.parse({...req.body, userId}): the userId of the body is replaced.
Parsed(q) == [[userId |-> q.bodyUserId] EXCEPT !.userId = q.user]

\* res.status(status).json(..): the response of request r.  failedAt names the
\* step that threw; ops counts the storage operations the request performed.
Response(r, status, failedAt, ops) ==
    [id |-> r.id, route |-> r.route, user |-> r.user, status |-> status,
     failedAt |-> failedAt, ops |-> ops]

Respond(r, status, failedAt) ==
    /\ requests' = requests \ {r}
    /\ responses' = responses \cup
           {Response(r, status, failedAt, IF status = 200 THEN r.ops + 1 ELSE r.ops)}

\* A request reaches its handler, which runs to its first await: a create
\* route parses the body (a ZodError is answered 400), then calls storage.
Receive(q) ==
    /\ Received < MaxRequests
    /\ LET r == [id |-> Received + 1, route |-> q.route, user |-> q.user,
                 userId |-> Parsed(q).userId, target |-> q.target,
                 pc |-> "storage", current |-> NoProgress, ops |-> 0]
       IN IF q.route \notin UpdateRoutes /\ ~q.valid
          THEN /\ responses' = responses \cup {Response(r, 400, "parse", 0)}
               /\ UNCHANGED requests
          ELSE /\ requests' = requests \cup {r}
               /\ UNCHANGED responses
    /\ UNCHANGED <<exerciseSessions, userProgress, records, client>>

\* createExerciseSession: db.insert(exerciseSessions).values(session).
InsertExerciseSession(r, fails) ==
    /\ r \in requests /\ r.route = ExerciseRoute /\ r.pc = "storage"
    /\ IF fails
       THEN /\ Respond(r, 500, "insert")
            /\ UNCHANGED exerciseSessions
       ELSE /\ exerciseSessions' = exerciseSessions \cup {[id |-> r.id, userId |-> r.userId]}
            /\ requests' = (requests \ {r}) \cup {[r EXCEPT !.pc = "getUserProgress",
                                                             !.ops = @ + 1]}
            /\ UNCHANGED responses
    /\ UNCHANGED <<userProgress, records, client>>

\* incrementUserProgress: const currentProgress = await getUserProgress(userId).
GetUserProgress(r, fails) ==
    /\ r \in requests /\ r.pc = "getUserProgress"
    /\ IF fails
       THEN Respond(r, 500, "increment")
       ELSE /\ requests' = (requests \ {r}) \cup
                   {[r EXCEPT !.pc = "updateUserProgress",
                              !.current = userProgress[r.userId], !.ops = @ + 1]}
            /\ UNCHANGED responses
    /\ UNCHANGED <<exerciseSessions, userProgress, records, client>>

IncrementedTotalOnly(current, row) ==
    IF current.exists
    THEN [row EXCEPT !.exists = TRUE,
                     !.totalSessions = current.totalSessions + 1]
    ELSE [exists |-> TRUE, currentWeekSessions |-> 1, totalSessions |-> 1,
          weeklyExerciseGoal |-> 5]
\* The row updateUserProgress leaves (insert .. onConflictDoUpdate) when
\* incrementUserProgress calls it with what it read (current) and the table
\* holds row.
Incremented(current, row) ==
    IF current.exists
    THEN [row EXCEPT !.exists = TRUE,
                     !.currentWeekSessions = current.currentWeekSessions + 1,
                     !.totalSessions = current.totalSessions + 1]
    ELSE [exists |-> TRUE, currentWeekSessions |-> 1, totalSessions |-> 1,
          weeklyExerciseGoal |-> 5]

\* incrementUserProgress: await updateUserProgress(userId, {..}); then
\* createExerciseSession returns and the route answers with the session.
UpdateUserProgress(r, fails) ==
    /\ r \in requests /\ r.pc = "updateUserProgress"
    /\ IF fails
       THEN /\ Respond(r, 500, "increment")
            /\ UNCHANGED userProgress
       ELSE /\ userProgress' =
                   [userProgress EXCEPT
                      ![r.userId] = Incremented(r.current, userProgress[r.userId])]
            /\ Respond(r, 200, "none")
    /\ UNCHANGED <<exerciseSessions, records, client>>

\* createMoodEntry, createChatConversation, createAppointment: one insert.
CreateRecord(r, fails) ==
    /\ r \in requests /\ r.route \in RecordRoutes /\ r.pc = "storage"
    /\ IF fails
       THEN /\ Respond(r, 500, "insert")
            /\ UNCHANGED records
       ELSE /\ records' = records \cup
                   {[id |-> r.id, table |-> TableOf(r.route), userId |-> r.userId,
                     createdBy |-> r.user, modifiedBy |-> {}]}
            /\ Respond(r, 200, "none")
    /\ UNCHANGED <<exerciseSessions, userProgress, client>>

\* updateChatConversation, updateAppointmentStatus: update .. where id = :id.
UpdateRecord(r, fails) ==
    /\ r \in requests /\ r.route \in UpdateRoutes /\ r.pc = "storage"
    /\ IF fails
       THEN /\ Respond(r, 500, "update")
            /\ UNCHANGED records
       ELSE /\ records' =
                   {IF rec.table = TableOf(r.route) /\ rec.id = r.target
                    THEN [rec EXCEPT !.modifiedBy = @ \cup {r.user}]
                    ELSE rec : rec \in records}
            /\ Respond(r, 200, "none")
    /\ UNCHANGED <<exerciseSessions, userProgress, client>>

\* Requests are served concurrently: the handlers interleave at their awaits.
ServerNext ==
    \/ \E q \in CreateRequests \cup UpdateRequests : Receive(q)
    \/ \E r \in requests, fails \in BOOLEAN : InsertExerciseSession(r, fails)
    \/ \E r \in requests, fails \in BOOLEAN : GetUserProgress(r, fails)
    \/ \E r \in requests, fails \in BOOLEAN : UpdateUserProgress(r, fails)
    \/ \E r \in requests, fails \in BOOLEAN : CreateRecord(r, fails)
    \/ \E r \in requests, fails \in BOOLEAN : UpdateRecord(r, fails)

ServerSpec == Init /\ [][ServerNext]_vars

\* One request at a time: a request arrives when no handler is at an await.
SerialNext ==
    \/ \E q \in CreateRequests \cup UpdateRequests : requests = {} /\ Receive(q)
    \/ \E r \in requests, fails \in BOOLEAN : InsertExerciseSession(r, fails)
    \/ \E r \in requests, fails \in BOOLEAN : GetUserProgress(r, fails)
    \/ \E r \in requests, fails \in BOOLEAN : UpdateUserProgress(r, fails)
    \/ \E r \in requests, fails \in BOOLEAN : CreateRecord(r, fails)
    \/ \E r \in requests, fails \in BOOLEAN : UpdateRecord(r, fails)

SerialSpec == Init /\ [][SerialNext]_vars

\* ------------------------------------------------------------------ claims

\* The state was produced by a frame that countReps processed.
Frame == step.op = "result" /\ step.analyzed
\* currentHipY - previousHipY.current for that frame.
Delta == step.hip - step.prev
\* A session is live: its Pose object is the one poseRef holds.
Live == poseRef # 0
\* The state was produced by a frame of the live session that countReps
\* processed and that was not the first such frame of the session.
LaterFrame == Frame /\ step.pose = poseRef /\ ~step.first

\* C1: a processed frame that finds direction 'down', the debounce flag false
\* and a hip delta below -0.02 raises the rep count by exactly 1, calls
\* onRepCount exactly once and sets the debounce flag; any other processed
\* frame leaves the count alone and does not call onRepCount.
C1_QualifyingFrame ==
    step.dir = "down" /\ ~step.rip /\ step.prev # 0 /\ Delta < 0 - Threshold
C1_CountsExactlyOne ==
    Frame =>
        IF C1_QualifyingFrame
        THEN /\ repCount = step.count + 1
             /\ Cardinality(RepCalls(out)) = 1
             /\ repInProgress
        ELSE /\ repCount = step.count
             /\ RepCalls(out) = {}

\* C2: the k-th repetition counted while a session is live calls onRepCount
\* with the value k.
C2_EmitsCumulativeCount ==
    (step.op = "result" /\ Live /\ RepCalls(out) # {}) =>
        \A k \in RepCalls(out) : out[k].val = sessReps

\* C3: while a session is live the rep count and the values given to
\* onRepCount never decrease, and the count goes back to 0 only at a session
\* start.
C3_CountMonotonic ==
    /\ (step.op = "result" /\ Live) =>
           /\ repCount >= step.count
           /\ \A k \in RepCalls(out) : out[k].val >= step.repEmit
    /\ (step.op # "start" /\ step.op # "init") => (repCount = 0 => step.count = 0)

\* C4: a processed frame that finds the debounce flag set, or that arrives
\* less than 1000ms after a counted repetition, counts nothing and does not
\* call onRepCount.
C4_DebounceBlocks ==
    (Frame /\ (step.rip \/ (step.repAt # NoTime /\ now - step.repAt < DebounceDelay))) =>
        /\ repCount = step.count
        /\ RepCalls(out) = {}
\* A down->up reversal above the threshold arrived while the flag was set.
C4_BlockedReversal ==
    /\ Frame /\ step.rip /\ step.dir = "down" /\ step.prev # 0
    /\ Delta < 0 - Threshold
    /\ now - step.repAt < DebounceDelay
    /\ movementDirection = "up"

\* C5 as stated: a processed frame with |delta| <= 0.02 leaves the rep count,
\* the direction and the debounce flag alone and no callback fires (stated
\* here for the frames that have a previous hip height to compare with).
C5_SubThresholdSilent ==
    (Frame /\ step.prev # 0 /\ Abs(Delta) <= Threshold) =>
        /\ repCount = step.count
        /\ movementDirection = step.dir
        /\ repInProgress = step.rip
        /\ out = <<>>
\* C5 as amended: a processed frame with |delta| <= 0.02 leaves the rep count,
\* the direction and the debounce flag alone and does not call onRepCount
\* (the scorer may call onPostureUpdate for that frame).
C5_SubThresholdNoCount ==
    (Frame /\ Abs(Delta) <= Threshold) =>
        /\ repCount = step.count
        /\ movementDirection = step.dir
        /\ repInProgress = step.rip
        /\ RepCalls(out) = {}
\* An upward move of exactly the threshold, found with direction 'down' and
\* the flag clear.
C5_ExactThresholdUp ==
    /\ Frame /\ step.prev # 0 /\ Delta = 0 - Threshold
    /\ step.dir = "down" /\ ~step.rip

\* C6: two consecutive onPostureUpdate calls of a session are more than
\* 1000ms apart.
C6_ScoreRateLimited ==
    (step.op = "result" /\ Live /\ PostureCalls(out) # {} /\ step.postureAt # NoTime) =>
        now - step.postureAt > PostureWindow

\* C7: every value given to onPostureUpdate is an integer from 0 to 100.
C7_ScoreInRange ==
    \A k \in PostureCalls(out) : out[k].val \in 0..100
\* A score that the clamp brought up to 0 was emitted.
C7_ClampedScoreEmitted ==
    /\ Frame
    /\ \E k \in PostureCalls(out) : out[k].val = 0

\* C8: a result delivered after the session stopped (isActive false, clean-up
\* run) calls neither callback and changes no counter or scorer state.
C8_LateFrameIgnored ==
    (step.op = "result" /\ ~isActive /\ ~Live) =>
        /\ out = <<>>
        /\ previousHipY = step.prev
        /\ movementDirection = step.dir
        /\ repInProgress = step.rip
        /\ repCount = step.count

\* C9: no timer scheduled while a session was live runs after that session's
\* clean-up.
C9_NoTimerAfterTeardown ==
    (step.op = "timer" /\ step.pose # 0) => poseRef = step.pose

\* C10: a session starts with previous hip height unseeded, direction 'none',
\* debounce flag false, rep count 0 and last-emission time reset, in the state
\* and in what its handler captured.
C10_FreshSessionState ==
    (step.op \in {"start", "loaded"} /\ Live) =>
        /\ previousHipY = 0
        /\ movementDirection = "none"
        /\ ~repInProgress
        /\ repCount = 0
        /\ lastPostureCheck = 0
        /\ handlers[poseRef] = [repCount |-> 0, lastPostureCheck |-> 0]

\* C11: a debounce flag set at time t is cleared by the timer scheduled with
\* it, at t + 1000ms (to the clock's granularity) and by nothing else, whether
\* or not frames arrive or the session stops; so a set flag is eventually
\* cleared (for every t whose release time the modelled clock reaches).
C11_ReleaseDue == lastRepAt + DebounceDelay
C11_ClockReaches(t) == \E k \in 0..((MaxTime - T0) \div Step) : T0 + k * Step >= t
C11_ReleasedByItsTimer ==
    /\ [](repInProgress =>
            /\ lastRepAt # NoTime
            /\ \E t \in timers : t.due = C11_ReleaseDue)
    /\ [][(repInProgress /\ ~repInProgress') =>
            /\ step'.op = "timer"
            /\ now' >= C11_ReleaseDue
            /\ now' - C11_ReleaseDue < Step]_vars
    /\ [](Frame /\ step.rip => repInProgress)
    /\ ((repInProgress /\ C11_ClockReaches(C11_ReleaseDue)) ~> ~repInProgress)
\* The timer released the flag after the session had stopped, with no frame
\* since the counted repetition.
C11_ReleasedAfterStop ==
    /\ step.op = "timer" /\ ~repInProgress
    /\ ~isActive /\ inflight = {}
    /\ lastRepAt # NoTime /\ now >= lastRepAt + DebounceDelay
    /\ lastPostureCheck <= lastRepAt

\* C12: the first frame of a session that reaches countReps only seeds the
\* previous hip height: after it direction is 'none', the rep count is 0, the
\* debounce flag is false and onRepCount was not called, whatever its hip
\* height.
C12_FirstFrameOnlySeeds ==
    (Frame /\ step.first) =>
        /\ previousHipY = step.hip
        /\ movementDirection = "none"
        /\ repCount = 0
        /\ ~repInProgress
        /\ RepCalls(out) = {}

\* C13: a result with no landmark list, or with fewer than 33 landmarks, is
\* consumed without a callback (no onPostureUpdate, no onRepCount) and leaves
\* the previous hip height, the direction, the debounce flag, the rep count and
\* the last-emission timestamp as they were.
C13_LandmarksAbsent == ~step.f.has \/ step.f.len < MinLandmarks
C13_AbsentLandmarksDropped ==
    (step.op = "result" /\ C13_LandmarksAbsent) =>
        /\ step.pose \notin inflight
        /\ out = <<>>
        /\ previousHipY = step.prev
        /\ movementDirection = step.dir
        /\ repInProgress = step.rip
        /\ repCount = step.count
        /\ lastPostureCheck = step.lpc
\* A list of 32 landmarks arrived when a score was due and its hip height was
\* more than the threshold below the stored one, with direction 'up'.
C13_ShortFrameDropped ==
    /\ step.op = "result" /\ step.f.has /\ step.f.len = MinLandmarks - 1
    /\ now - handlers[step.pose].lastPostureCheck > PostureWindow
    /\ step.prev # 0 /\ step.dir = "up"
    /\ HipCenterY(step.f) - step.prev > Threshold
    /\ movementDirection = "up"

\* C14: the value given to onPostureUpdate is
\* round(clamp(0, 100, 100 - 200 * |nose.y - shoulderCenterY - hipCenterY|)),
\* the centres being the means of the left and right y-coordinates; the frame
\* nose 0.10, shoulders 0.30/0.30, hips 0.70/0.70 gives 0.  With coordinates in
\* thousandths, 200 * |nose - (ls + rs)/2 - (lh + rh)/2| is a tenth of
\* |2 nose - ls - rs - lh - rh|, and v = round(c) says v - 0.5 <= c < v + 0.5.
C14_TenTimesClamped(f) ==
    LET d == 2 * f.nose - f.shoulders[1] - f.shoulders[2] - f.hips[1] - f.hips[2]
        raw == IF d < 0 THEN 1000 + d ELSE 1000 - d
    IN IF raw < 0 THEN 0 ELSE IF raw > 1000 THEN 1000 ELSE raw
C14_Scenario ==
    step.f.nose = 100 /\ step.f.shoulders = <<300, 300>> /\ step.f.hips = <<700, 700>>
C14_ScoreAsSpecified ==
    Frame =>
        \A k \in PostureCalls(out) :
            /\ out[k].val \in Int
            /\ 10 * out[k].val - 5 <= C14_TenTimesClamped(step.f)
            /\ C14_TenTimesClamped(step.f) < 10 * out[k].val + 5
            /\ C14_Scenario => out[k].val = 0
\* The frame nose 0.10, shoulders 0.30/0.30, hips 0.70/0.70 emitted a score.
C14_ScenarioScored ==
    Frame /\ C14_Scenario /\ PostureCalls(out) # {}

\* C15: a processed frame that is not the cold-start frame of its session and
\* whose hip height differs from the stored one by more than 0.02 leaves
\* direction 'down' when delta > 0 and 'up' when delta < 0, counted or not,
\* debounce flag set or not.
C15_DirectionFollowsDelta ==
    (LaterFrame /\ Abs(Delta) > Threshold) =>
        movementDirection = (IF Delta > 0 THEN "down" ELSE "up")

\* C16: after every frame the repetition counter processed (cold-start,
\* below or above the threshold, counted or debounced) the stored previous
\* hip height is that frame's hip-center height.
C16_PreviousIsCurrent ==
    Frame => previousHipY = step.hip
\* A frame above the threshold found the debounce flag set on a down->up
\* reversal, and its hip height replaced a different stored one.
C16_DebouncedFrameStored ==
    /\ Frame /\ step.rip /\ step.dir = "down" /\ step.prev # 0
    /\ Delta < 0 - Threshold
    /\ RepCalls(out) = {}
    /\ previousHipY = step.hip /\ previousHipY # step.prev

\* C17: scorer and counter do not interact.  On every processed frame the
\* scorer's emission, its value and the timestamp it leaves are given by the
\* frame, the time and the timestamp its handler captured, whatever the
\* direction, the debounce flag and the rep count are; and the refs the
\* counter leaves, its onRepCount call and the count it sets are given by the
\* hip height, the refs it found and the count its handler captured, whether
\* or not a score was emitted.  Neither reads what the other writes, so the
\* order of the two on a frame changes nothing either.
C17_ScorerCounterIndependent ==
    Frame =>
        LET h == handlers[step.pose]
            due == now - h.lastPostureCheck > PostureWindow
            crossing == step.prev # 0 /\ Abs(Delta) > Threshold
            counted == crossing /\ step.dir = "down" /\ Delta < 0 /\ ~step.rip
        IN /\ (PostureCalls(out) # {}) = due
           /\ Cardinality(PostureCalls(out)) <= 1
           /\ \A k \in PostureCalls(out) : out[k].val = Round(PostureScore(step.f))
           /\ lastPostureCheck = (IF due THEN now ELSE step.lpc)
           /\ previousHipY = step.hip
           /\ movementDirection =
                  (IF crossing THEN (IF Delta < 0 THEN "up" ELSE "down") ELSE step.dir)
           /\ repInProgress = (step.rip \/ counted)
           /\ (RepCalls(out) # {}) = counted
           /\ Cardinality(RepCalls(out)) <= 1
           /\ \A k \in RepCalls(out) : out[k].val = h.repCount + 1
           /\ repCount = (IF counted THEN h.repCount + 1 ELSE step.count)
\* A frame of the live session counted a repetition and emitted no score.
C17_CountedWithoutScore ==
    /\ Frame /\ RepCalls(out) # {} /\ PostureCalls(out) = {}
    /\ step.pose = poseRef

\* C18: the last-emission timestamp changes only on a frame that emits a
\* score, and is then that frame's time; and a processed frame of the live
\* session emits a score when it arrives more than 1000ms after the last
\* emission or is the first processed frame of its session.
C18_RollingWindow ==
    /\ (step.op = "result" /\ PostureCalls(out) # {}) => lastPostureCheck = now
    /\ (step.op = "result" /\ PostureCalls(out) = {}) => lastPostureCheck = step.lpc
    /\ (Frame /\ step.pose = poseRef
           /\ (step.first \/ now - step.lpc > PostureWindow)) =>
           PostureCalls(out) # {}

\* C19: insufficient landmarks skip only the sub-computation they affect.  A
\* processed frame whose nose and shoulder landmarks are below confidence
\* emits no score and, its hips being usable, still goes through the counter;
\* a frame whose hip landmarks are below confidence leaves the counter state
\* (previous hip height, direction, debounce flag, rep count) unchanged and
\* does not call onRepCount.
C19_SkipsOnlyAffected ==
    Frame =>
        /\ step.f.noseVis < MinConfidence => PostureCalls(out) = {}
        /\ step.f.hipVis >= MinConfidence => previousHipY = step.hip
        /\ step.f.hipVis < MinConfidence =>
               /\ previousHipY = step.prev
               /\ movementDirection = step.dir
               /\ repInProgress = step.rip
               /\ repCount = step.count
               /\ RepCalls(out) = {}

\* C20: one frame per session is the cold-start frame.  Every later processed
\* frame of the session is compared with the stored previous hip height, also
\* when that height is exactly 0: it sets the direction when the difference
\* exceeds the threshold and counts on a down->up reversal with the debounce
\* flag clear.
C20_OneColdStartPerSession ==
    LaterFrame =>
        /\ movementDirection =
               (IF Abs(Delta) > Threshold
                THEN (IF Delta > 0 THEN "down" ELSE "up")
                ELSE step.dir)
        /\ (RepCalls(out) # {}) =
               (Abs(Delta) > Threshold /\ step.dir = "down" /\ Delta < 0 /\ ~step.rip)

\* C21: every counted repetition has its own down phase.  A frame counts only
\* when it finds direction 'down', and leaves it 'up'; the direction becomes
\* 'down' only through a processed frame; so between two counts a frame set
\* the direction to 'down'.  A down->up reversal that finds the debounce flag
\* set leaves direction 'up' and counts nothing, and the release of the flag
\* counts nothing and leaves the direction alone.
C21_Counted == step.op = "result" /\ RepCalls(out) # {}
C21_OwnDownPhase ==
    /\ [][C21_Counted' => (movementDirection = "down" /\ movementDirection' = "up")]_vars
    /\ [][(movementDirection # "down" /\ movementDirection' = "down") =>
              (Frame' /\ step'.hip - previousHipY > Threshold)]_vars
    /\ []((Frame /\ step.rip /\ step.dir = "down" /\ step.prev # 0
              /\ Delta < 0 - Threshold) =>
             (movementDirection = "up" /\ repCount = step.count /\ RepCalls(out) = {}))
    /\ [][step'.op = "timer" =>
              /\ out' = <<>> /\ repCount' = repCount
              /\ movementDirection' = movementDirection]_vars
\* A second repetition was counted after the flag of the first was released.
C21_SecondRepetition ==
    /\ C21_Counted /\ step.repAt # NoTime
    /\ step.dir = "down" /\ movementDirection = "up"

\* C22: two consecutive onRepCount calls made by countReps are at least
\* 1000ms apart.
C22_RepCallsSpaced ==
    (C21_Counted /\ step.repAt # NoTime) => now - step.repAt >= DebounceDelay
\* A repetition was counted exactly 1000ms after the one before it.
C22_CountedAtRelease ==
    /\ C21_Counted /\ step.repAt # NoTime
    /\ now - step.repAt = DebounceDelay

\* C23: the debounce flag is set exactly when one release timer is pending,
\* and there is never more than one pending release timer.
C23_FlagIffOneTimer ==
    /\ Cardinality(timers) <= 1
    /\ repInProgress = (Cardinality(timers) = 1)
\* A session starts while the flag is set and the timer of the session
\* before it is pending.
C23_TimerAcrossRestart ==
    /\ step.op = "start" /\ Live /\ repInProgress
    /\ \E t \in timers : t.session # 0 /\ t.session # poseRef

\* C24: when startPoseDetectionLoop runs for a session that is active, with
\* the scripts loaded and Pose initialized, a video frame is sent to the
\* detector and the next animation frame is requested.
C24_LoopSendsFrames ==
    (step.op = "loop" /\ isActive /\ isMediaPipeLoaded /\ isInitialized
       /\ step.pose # 0 /\ step.pose = poseRef) =>
        /\ poseRef \in inflight
        /\ \E c \in animation : c.fn = "detect"

\* C25: while a session is active with the scripts loaded and Pose not
\* initialized (its initialization threw and the catch started the
\* simulation), the simulation loop is running: a detectPose of the
\* simulation is pending as an animation frame.
C25_SimulationKeepsRunning ==
    (isActive /\ isMediaPipeLoaded /\ ~isInitialized) =>
        \E c \in animation : c.fn = "simulate" /\ c.active

\* C26: the callbacks of the simulation.  Every onPostureUpdate value is in
\* 0..100 and comes more than 1000ms after the one before it; onRepCount is
\* called only in a tick that called onPostureUpdate, and its value is the
\* value of the call before it plus 1, the first being 1.
C26_SimulationContract ==
    /\ \A k \in PostureCalls(out) : out[k].val \in 0..100
    /\ Cardinality(PostureCalls(out)) <= 1
    /\ (PostureCalls(out) # {} /\ step.postureAt # NoTime) =>
           now - step.postureAt > PostureWindow
    /\ RepCalls(out) # {} => PostureCalls(out) # {}
    /\ Cardinality(RepCalls(out)) <= 1
    /\ \A k \in RepCalls(out) : out[k].val = step.repEmit + 1
\* An animation frame of a simulation that the fallback effect started again
\* after a state update emitted the second score and the second count.
C26_SecondSimulatedRep ==
    /\ step.op = "frame" /\ ~isMediaPipeLoaded
    /\ step.postureAt # NoTime /\ PostureCalls(out) # {}
    /\ step.repEmit = 1 /\ RepCalls(out) # {}

\* The creations of exercise sessions for user u that were answered with the
\* created session.
Created(u) ==
    {p \in responses : p.route = ExerciseRoute /\ p.user = u /\ p.status = 200}

\* The exercise-session rows of user u.
SessionRows(u) == {row \in exerciseSessions : row.userId = u}

\* Claim C27: each successful createExerciseSession for a user raises that
\* user's totalSessions and currentWeekSessions by exactly 1: the first
\* creation for a user without a progress row creates it with totalSessions 1,
\* currentWeekSessions 1 and weeklyExerciseGoal 5, and after n sequential
\* successful creations totalSessions (and currentWeekSessions) equals n.
C27_SequentialCount ==
    \A u \in Users :
        LET n == Cardinality(Created(u))
        IN /\ userProgress[u].totalSessions = n
           /\ userProgress[u].currentWeekSessions = n
           /\ userProgress[u].exists = (n > 0)
           /\ n > 0 => userProgress[u].weeklyExerciseGoal = 5

\* Claim C27, witness: a user's second sequential creation has succeeded, its
\* row read and incremented after the first creation wrote it.
C27_SecondCreation ==
    \E u \in Users :
        /\ Cardinality(Created(u)) = 2
        /\ userProgress[u].totalSessions = 2
        /\ requests = {}

\* Claim C28: progress counting loses no update under concurrency: once N
\* concurrent createExerciseSession calls for one user have all completed
\* successfully, the user's totalSessions has grown by N, the number of
\* exercise-session rows inserted.
C28_NoLostUpdate ==
    \A u \in Users :
        (/\ requests = {}
         /\ \A p \in responses :
                p.route = ExerciseRoute /\ p.user = u => p.status = 200)
        => /\ Cardinality(SessionRows(u)) = Cardinality(Created(u))
           /\ userProgress[u].totalSessions = Cardinality(SessionRows(u))

\* Claim C29: every create request yields exactly one response: 400 when the
\* schema validation fails, and then no storage operation was performed; 500
\* when a later step threw; otherwise the created record.  When POST
\* /api/exercise-sessions answers 500 because the progress increment failed,
\* no exercise-session row of that request remains persisted.
C29_CreateResponses ==
    /\ \A p, q \in responses : p.id = q.id => p = q
    /\ \A p \in responses : \A r \in requests : p.id # r.id
    /\ \A p \in responses :
          p.route \in {ExerciseRoute} \cup RecordRoutes =>
             /\ p.status \in {200, 400, 500}
             /\ p.status = 400 <=> p.failedAt = "parse"
             /\ p.status = 400 => p.ops = 0
             /\ p.status = 500 <=> p.failedAt \in {"insert", "increment"}
             /\ p.status = 200 <=> p.failedAt = "none"
             /\ p.status = 200 /\ p.route = ExerciseRoute =>
                    \E row \in exerciseSessions : row.id = p.id
             /\ p.status = 200 /\ p.route \in RecordRoutes =>
                    \E rec \in records : rec.id = p.id /\ rec.table = TableOf(p.route)
             /\ p.route = ExerciseRoute /\ p.status = 500 /\ p.failedAt = "increment" =>
                    \A row \in exerciseSessions : row.id # p.id

\* Claim C30: a record created or modified through the API always belongs to
\* the server-determined user: every create route stores the requesting user's
\* id whatever userId the body carries, and the two update routes modify only
\* records whose userId is the requesting user's id.
C30_OwnRecordsOnly ==
    /\ \A rec \in records :
          /\ rec.userId = rec.createdBy
          /\ rec.modifiedBy \subseteq {rec.userId}
    /\ \A row \in exerciseSessions :
          \E r \in requests \cup responses : r.id = row.id /\ r.user = row.userId

====
